---- MODULE Spec2Model ----
(***************************************************************************)
(* Model of allensdk/brain_observatory/behavior/swdb/                      *)
(* behavior_project_cache.py: the manifest lookup of BehaviorProjectCache, *)
(* the table adapters and the trial / stimulus reconciliation pass of      *)
(* ExtendedNwbApi, and the lazily loaded attributes of                     *)
(* ExtendedBehaviorSession.                                                *)
(*                                                                         *)
(* Data frames are sequences of records (one record per row, one field per *)
(* column that the code reads or writes).  A nullable float (NaN / None)   *)
(* is the empty tuple <<>>, a present value v is <<v>>.                    *)
(***************************************************************************)
EXTENDS Integers, Sequences, FiniteSets, TLC

\* ------------------------------------------------------------- bounds ----
MaxTime == 2       \* timestamps are 0..MaxTime
MaxStim == 2       \* rows of the stimulus-presentations table
MaxTrials == 2     \* rows of the trials table
MaxLicks == 2      \* licks of one trial
MaxLatencyTrials == 1  \* rows of the trials table when lick trains vary
MaxManifest == 3   \* rows of the manifest
MaxContainer == 2  \* container ids are 1..MaxContainer
MaxExperiment == 2 \* ophys experiment ids are 1..MaxExperiment
MaxAccess == 2     \* reads of one attribute of a session

VARIABLES
    nwb_trials,                  \* super().get_trials(): the NWB trials table
    nwb_stimulus_presentations,  \* super().get_stimulus_presentations()
    filter_aborted_trials,       \* argument of the get_trials call
    patched_change_time,         \* the change_time column after the timing patch
    trials,                      \* the table get_trials returned
    trials_pc,                   \* "ready", "returned", "IndexError", "ValueError",
                                 \* "AssertionError"
    manifest,                    \* BehaviorProjectCache.manifest
    container_id,                \* argument of the get_container_sessions call
    container_stages,            \* the dictionary get_container_sessions returned
    cache_pc,                    \* "ready", "returned", "KeyError"
    stage,                       \* task_parameters['stage'], a tuple of characters
    extended_h5,                 \* the extended_stimulus_presentations_df file
    trial_response_h5,           \* the trial_response_df file
    flash_response_h5,           \* the flash_response_df file
    returned_presentations,      \* the table api.get_stimulus_presentations returned
    stimulus_pc,                 \* "ready", "returned", "IndexError"
    session_pc,                  \* "unconstructed", "ready", "raised"
    lazy,                        \* the LazyProperty behind each attribute
    calls,                       \* calls of each attribute's loader so far
    accesses,                    \* reads of each attribute so far
    first_value,                 \* what the first read of each attribute returned
    last_value,                  \* what the latest read of each attribute returned
    next_obj                     \* identity of the next object a loader creates

nwb_vars == <<nwb_trials, nwb_stimulus_presentations, stage,
              extended_h5, trial_response_h5, flash_response_h5>>

trials_vars == <<filter_aborted_trials, patched_change_time, trials, trials_pc>>

cache_vars == <<manifest, container_id, container_stages, cache_pc>>

api_vars == <<returned_presentations, stimulus_pc>>

session_vars == <<session_pc, lazy, calls, accesses, first_value, last_value, next_obj>>

vars == <<nwb_vars, trials_vars, cache_vars, api_vars, session_vars>>

\* ------------------------------------------------------- value helpers ----
Times == 0..MaxTime

NaN == <<>>

isnull(x) == x = NaN

\* IEEE comparison a >= x on a nullable x: false when x is NaN.
ge(a, x) == ~isnull(x) /\ a >= x[1]

\* IEEE comparison a > b on plain numbers (np.logical_not(stop_time > last)).
gt(a, b) == a > b

\* ------------------------------------------------------ get_trials -------
\* Variant: the query written with > in place of >=.
get_next_flash_strict(stimulus_presentations, timestamp) ==
    LET query == SelectSeq(stimulus_presentations,
                           LAMBDA r : ~isnull(timestamp) /\ r.start_time > timestamp[1])
    IN  IF Len(query) > 0 THEN <<query[1].start_time>> ELSE NaN

\* Variant: the change time left as recorded.
get_next_flash_identity(stimulus_presentations, timestamp) ==
    timestamp

\* stimulus_presentations.query('start_time >= @timestamp'), then iloc[0].
get_next_flash(stimulus_presentations, timestamp) ==
    LET query == SelectSeq(stimulus_presentations,
                           LAMBDA r : ge(r.start_time, timestamp))
    IN  IF Len(query) > 0 THEN <<query[1].start_time>> ELSE NaN

\* trials['change_time'] = trials['change_time'].map(lambda x: get_next_flash(x))
patch_change_time(trials0, stimulus_presentations) ==
    [i \in 1..Len(trials0) |->
        [trials0[i] EXCEPT !.change_time = get_next_flash(stimulus_presentations, @)]]

\* stimulus_presentations.iloc[-1]['start_time'] (the table is not empty here)
last_stimulus_presentation(stimulus_presentations) ==
    stimulus_presentations[Len(stimulus_presentations)].start_time

\* Variant: the comparison written with >= in place of >.
drop_uncovered_ge(trials0, last) ==
    SelectSeq(trials0, LAMBDA r : ~(r.stop_time >= last))

\* trials[np.logical_not(trials['stop_time'] > last_stimulus_presentation)]
drop_uncovered(trials0, last) ==
    SelectSeq(trials0, LAMBDA r : ~gt(r.stop_time, last))

\* row['lick_times'] > 0 : the element-wise comparison of a numpy array
lick_times_positive(lick_times) ==
    [i \in 1..Len(lick_times) |-> lick_times[i] > 0]

\* Variant: the latency stored in the NWB file kept as it is.
recalculate_response_latency_stale(row) ==
    row.response_latency

\* lick_times[0] - change_time when there is a lick and a change time.
recalculate_response_latency(row) ==
    IF Len(lick_times_positive(row.lick_times)) > 0 /\ ~isnull(row.change_time)
    THEN <<row.lick_times[1] - row.change_time[1]>>
    ELSE NaN

\* trials['response_latency'] = trials.apply(recalculate_response_latency, axis=1)
apply_response_latency(trials0) ==
    [i \in 1..Len(trials0) |->
        [trials0[i] EXCEPT !.response_latency = recalculate_response_latency(trials0[i])]]

\* for change_time in trials[trials['change_time'].notna()]['change_time']:
\*     assert change_time in stimulus_presentations['start_time'].values
change_times_exist(trials0, stimulus_presentations) ==
    \A i \in 1..Len(trials0) :
        ~isnull(trials0[i].change_time) =>
            \E s \in 1..Len(stimulus_presentations) :
                stimulus_presentations[s].start_time = trials0[i].change_time[1]

\* Variant: the query written as 'aborted'.
filter_aborted_inverted(trials0, flag) ==
    IF flag THEN SelectSeq(trials0, LAMBDA r : r.aborted) ELSE trials0

\* if filter_aborted_trials: trials = trials.query('not aborted')
filter_aborted(trials0, flag) ==
    IF flag THEN SelectSeq(trials0, LAMBDA r : ~r.aborted) ELSE trials0

\* trials = trials[[...]] : the columns kept (those the model carries), the
\* index (trials_id) is kept by pandas.  The reward_rate column added next
\* by calculate_reward_rate changes no other column and is not carried.
select_columns(trials0) ==
    [i \in 1..Len(trials0) |->
        [trials_id        |-> trials0[i].trials_id,
         change_time      |-> trials0[i].change_time,
         lick_times       |-> trials0[i].lick_times,
         response_latency |-> trials0[i].response_latency,
         hit              |-> trials0[i].hit,
         false_alarm      |-> trials0[i].false_alarm,
         aborted          |-> trials0[i].aborted,
         stop_time        |-> trials0[i].stop_time]]

\* hit = trials['hit'].values; fa = trials['false_alarm'].values
\* Variant: false alarms left out.
logical_or_hit_only(hit, fa) ==
    [i \in 1..Len(hit) |-> hit[i]]

\* trials['response_binary'] = np.logical_or(hit, fa)   (positional)
logical_or(hit, fa) ==
    [i \in 1..Len(hit) |-> hit[i] \/ fa[i]]

add_response_binary(trials0) ==
    LET hit == [i \in 1..Len(trials0) |-> trials0[i].hit]
        fa  == [i \in 1..Len(trials0) |-> trials0[i].false_alarm]
        rb  == logical_or(hit, fa)
    IN  [i \in 1..Len(trials0) |->
            [trials_id        |-> trials0[i].trials_id,
             change_time      |-> trials0[i].change_time,
             lick_times       |-> trials0[i].lick_times,
             response_latency |-> trials0[i].response_latency,
             hit              |-> trials0[i].hit,
             false_alarm      |-> trials0[i].false_alarm,
             aborted          |-> trials0[i].aborted,
             stop_time        |-> trials0[i].stop_time,
             response_binary  |-> rb[i]]]

\* The whole of ExtendedNwbApi.get_trials: [status, table].
get_trials(trials0, stimulus_presentations, flag) ==
    LET patched == patch_change_time(trials0, stimulus_presentations)
    IN  IF Len(stimulus_presentations) = 0
        THEN [status |-> "IndexError", table |-> <<>>]
        ELSE LET last    == last_stimulus_presentation(stimulus_presentations)
                 covered == drop_uncovered(patched, last)
                 latency == apply_response_latency(covered)
             IN  IF ~change_times_exist(latency, stimulus_presentations)
                 THEN [status |-> "AssertionError", table |-> <<>>]
                 ELSE [status |-> "returned",
                       table  |-> add_response_binary(
                                      select_columns(filter_aborted(latency, flag)))]

\* ------------------------------------------------------------ inputs ------
\* Time-ordered stimulus-presentations tables of at most MaxStim rows.
ImageSetColumn == "Natural_Images_Lum_Matched_set_training_2017.07.14"

ImageRow(t, name, index) ==
    [start_time |-> t, image_name |-> name, image_index |-> index,
     omitted |-> FALSE, image_set |-> ImageSetColumn]

StimRow(t) == ImageRow(t, "im065", 0)

StimTables ==
    UNION {{[i \in 1..n |-> StimRow(f[i])] :
                f \in {g \in [1..n -> Times] : \A i \in 1..(n-1) : g[i] <= g[i+1]}} :
           n \in 0..MaxStim}

\* Stimulus-presentations tables whose rows are in any order.
StimTablesAnyOrder ==
    UNION {{[i \in 1..n |-> StimRow(f[i])] : f \in [1..n -> Times]} : n \in 0..MaxStim}

\* Nullable timestamps.
NullableTimes == {NaN} \cup {<<t>> : t \in Times}

\* Lick trains of at most MaxLicks licks, in order of time.
LickTrains ==
    UNION {{g \in [1..n -> Times] : \A i \in 1..(n-1) : g[i] < g[i+1]} :
           n \in 0..MaxLicks}

\* The response latency the NWB file stores: from the unpatched change time.
stored_response_latency(change_time, lick_times) ==
    IF Len(lick_times) > 0 /\ ~isnull(change_time)
    THEN <<lick_times[1] - change_time[1]>>
    ELSE NaN

TrialRows(ChangeTimes, StopTimes, Licks, Hits, FalseAlarms, Aborteds) ==
    {[change_time |-> ct, stop_time |-> st, lick_times |-> lt,
      hit |-> h, false_alarm |-> fa, aborted |-> ab,
      response_latency |-> stored_response_latency(ct, lt)] :
        ct \in ChangeTimes, st \in StopTimes, lt \in Licks,
        h \in Hits, fa \in FalseAlarms, ab \in Aborteds}

\* Tables of at most MaxRows rows; trials_id is the pandas index.
TrialTables(Rows, MaxRows) ==
    UNION {{[i \in 1..n |->
                [trials_id        |-> i,
                 change_time      |-> f[i].change_time,
                 stop_time        |-> f[i].stop_time,
                 lick_times       |-> f[i].lick_times,
                 hit              |-> f[i].hit,
                 false_alarm      |-> f[i].false_alarm,
                 aborted          |-> f[i].aborted,
                 response_latency |-> f[i].response_latency]] :
                f \in [1..n -> Rows]} :
           n \in 0..MaxRows}

TimingRows == TrialRows(NullableTimes, Times, {<<>>}, {FALSE}, {FALSE}, {FALSE})

LatencyRows == TrialRows(NullableTimes, {0}, LickTrains, {FALSE}, {FALSE}, {FALSE})

ResponseRows == TrialRows({NaN}, {0, MaxTime}, {<<>>}, BOOLEAN, BOOLEAN, BOOLEAN)

AnyOrderRows == TrialRows(NullableTimes, {0, MaxTime}, {<<>>}, {FALSE}, {FALSE}, {FALSE})

\* --------------------------------------------- BehaviorProjectCache ------
\* Paths are tuples of string pieces, concatenated with \o.
Digit(d) == <<"0", "1", "2", "3", "4", "5", "6", "7", "8", "9">>[d + 1]

\* '{}'.format(experiment_id) of a non-negative integer
RECURSIVE format(_)
format(n) == IF n < 10 THEN <<Digit(n)>> ELSE format(n \div 10) \o <<Digit(n % 10)>>

nwb_base_dir == <<"nwb_files">>

analysis_files_base_dir == <<"analysis_files">>

\* os.path.join(base, name) of a base without a trailing separator
os_path_join(base, name) == base \o <<"/">> \o name

get_nwb_filepath(experiment_id) ==
    os_path_join(nwb_base_dir,
        <<"behavior_ophys_session_">> \o format(experiment_id) \o <<".nwb">>)

get_trial_response_df_path(experiment_id) ==
    os_path_join(analysis_files_base_dir,
        <<"trial_response_df_">> \o format(experiment_id) \o <<".h5">>)

get_flash_response_df_path(experiment_id) ==
    os_path_join(analysis_files_base_dir,
        <<"flash_response_df_">> \o format(experiment_id) \o <<".h5">>)

get_extended_stimulus_presentations_df(experiment_id) ==
    os_path_join(analysis_files_base_dir,
        <<"extended_stimulus_presentations_df_">> \o format(experiment_id) \o <<".h5">>)

\* ExtendedBehaviorSession(ExtendedNwbApi(...)): the session is the api's paths.
get_session(experiment_id) ==
    [nwb_path |-> get_nwb_filepath(experiment_id),
     trial_response_df_path |-> get_trial_response_df_path(experiment_id),
     flash_response_df_path |-> get_flash_response_df_path(experiment_id),
     extended_stimulus_presentations_df_path |->
         get_extended_stimulus_presentations_df(experiment_id)]

\* Variant: the manifest not narrowed to the container.
container_manifest_all(manifest0, cid) ==
    manifest0

\* self.manifest.groupby('container_id').get_group(container_id)
container_manifest(manifest0, cid) ==
    SelectSeq(manifest0, LAMBDA row : row.container_id = cid)

\* dict.update({key: value})
dict_update(d, key, value) ==
    [k \in (DOMAIN d) \cup {key} |-> IF k = key THEN value ELSE d[k]]

\* for ind_row, row in container_manifest.iterrows(): container_stages.update(...)
RECURSIVE iterrows_update(_, _)
iterrows_update(d, rows) ==
    IF Len(rows) = 0 THEN d
    ELSE iterrows_update(
             dict_update(d, rows[1].stage_name, get_session(rows[1].ophys_experiment_id)),
             Tail(rows))

\* The whole of get_container_sessions: [status, dict].
get_container_sessions(manifest0, cid) ==
    LET rows == container_manifest(manifest0, cid)
    IN  IF Len(rows) = 0
        THEN [status |-> "KeyError", dict |-> <<>>]
        ELSE [status |-> "returned", dict |-> iterrows_update(<<>>, rows)]

\* ------------------------------------- ExtendedNwbApi table adapters ------
None == <<>>

\* A table as a Python value: distinct from None also when it has no rows.
Table(rows) == <<rows>>

\* Python's s[k] on a string, 0-based.
str_index(s, k) == s[k + 1]

\* stimulus_presentations.join(extended_stimulus_presentations): a left join
\* on the index, the index being the 0-based row number.
join_extended(stim, i, extended) ==
    IF i <= Len(extended)
    THEN [index |-> <<extended[i].index>>, running_speed |-> <<extended[i].running_speed>>]
    ELSE [index |-> NaN, running_speed |-> NaN]

\* The whole of ExtendedNwbApi.get_stimulus_presentations: [status, table].
get_stimulus_presentations(stim, extended, stage0) ==
    IF Len(stage0) < 16
    THEN [status |-> "IndexError", table |-> <<>>]
    ELSE [status |-> "returned",
          table  |-> [i \in 1..Len(stim) |->
                        [flash_id              |-> i - 1,
                         image_name            |-> stim[i].image_name,
                         image_index           |-> stim[i].image_index,
                         start_time            |-> stim[i].start_time,
                         omitted               |-> stim[i].omitted,
                         mean_running_speed    |-> join_extended(stim, i, extended).running_speed,
                         absolute_flash_number |-> join_extended(stim, i, extended).index,
                         image_set             |-> str_index(stage0, 15)]]]

\* pd.read_hdf(...); reset_index(level=1); drop(columns=['cell_roi_id'])
get_trial_response_df(h5) ==
    [status |-> "ok",
     data   |-> Table([i \in 1..Len(h5) |->
                        [cell_specimen_id |-> h5[i].cell_specimen_id,
                         trials_id        |-> h5[i].trials_id,
                         mean_response    |-> h5[i].mean_response]])]

\* fdf.join(self.get_stimulus_presentations(), on='flash_id', how='left'):
\* the columns of the presentation whose index is flash_id, NaN without one.
join_on_flash_id(flash_id, presentations) ==
    IF flash_id + 1 \in 1..Len(presentations)
    THEN <<presentations[flash_id + 1]>>
    ELSE NaN

\* pd.read_hdf(...); reset_index(level=1);
\* drop(columns=['image_name', 'cell_roi_id']); join(...)
get_flash_response_df(h5, stim, extended, stage0) ==
    LET presentations == get_stimulus_presentations(stim, extended, stage0)
    IN  IF presentations.status # "returned"
        THEN [status |-> presentations.status, data |-> None]
        ELSE [status |-> "ok",
              data   |-> Table([i \in 1..Len(h5) |->
                            [cell_specimen_id |-> h5[i].cell_specimen_id,
                             flash_id         |-> h5[i].flash_id,
                             mean_response    |-> h5[i].mean_response,
                             presentation     |->
                                 join_on_flash_id(h5[i].flash_id, presentations.table)]])]

\* ------------------------------------------- ExtendedBehaviorSession ------
\* group['image_name'].unique() of the group of one image_index
unique_image_names(table, index) ==
    {table[i].image_name : i \in {j \in 1..Len(table) : table[j].image_index = index}}

\* groupby('image_index').apply(lambda group: one(group['image_name'].unique()))
image_index_names(table) ==
    [index \in {table[i].image_index : i \in 1..Len(table)} |->
        CHOOSE name \in unique_image_names(table, index) : TRUE]

\* one(...) raises unless the sequence has exactly one element.
one_raises(table) ==
    \E i \in 1..Len(table) : Cardinality(unique_image_names(table, table[i].image_index)) # 1

\* The whole of get_image_index: the function body ends after the assignment
\* to image_index_names, so the call returns None.
get_image_index(stim, extended, stage0) ==
    LET presentations == get_stimulus_presentations(stim, extended, stage0)
    IN  IF presentations.status # "returned"
        THEN [status |-> presentations.status, data |-> None]
        ELSE IF one_raises(presentations.table)
        THEN [status |-> "ValueError", data |-> None]
        ELSE LET names == image_index_names(presentations.table)
             IN  [status |-> "ok", data |-> None]

Attributes == {"trial_response_df", "flash_response_df", "image_index"}

\* The loader each attribute's LazyProperty wraps, applied to the files.
loader(attr) ==
    CASE attr = "trial_response_df" -> get_trial_response_df(trial_response_h5)
      [] attr = "flash_response_df" ->
             get_flash_response_df(flash_response_h5, nwb_stimulus_presentations,
                                   extended_h5, stage)
      [] attr = "image_index" ->
             get_image_index(nwb_stimulus_presentations, extended_h5, stage)

\* A Python object: its identity and its contents.  None is one object.
PyNone == [obj |-> 0, data |-> None]

new_object(data) == IF data = None THEN PyNone ELSE [obj |-> next_obj, data |-> data]

\* LazyProperty(api_method): nothing is read when the property is made.
LazyProperty == [loaded |-> FALSE, value |-> PyNone]

\* Reading attribute attr returns v.
Returns(attr, v) ==
    /\ first_value' = [first_value EXCEPT ![attr] = IF @ = <<>> THEN <<v>> ELSE @]
    /\ last_value' = [last_value EXCEPT ![attr] = <<v>>]

\* Reading an attribute that is a LazyProperty: the first read calls the
\* loader and keeps what it returns, later reads return what was kept.  An
\* exception of the loader leaves the read, and the run, unfinished.
LazyProperty_get(attr) ==
    /\ session_pc = "ready"
    /\ accesses[attr] < MaxAccess
    /\ accesses' = [accesses EXCEPT ![attr] = @ + 1]
    /\ IF lazy[attr].loaded
       THEN /\ Returns(attr, lazy[attr].value)
            /\ UNCHANGED <<session_pc, lazy, calls, next_obj>>
       ELSE /\ calls' = [calls EXCEPT ![attr] = @ + 1]
            /\ IF loader(attr).status = "ok"
               THEN /\ lazy' = [lazy EXCEPT ![attr] =
                                   [loaded |-> TRUE, value |-> new_object(loader(attr).data)]]
                    /\ Returns(attr, new_object(loader(attr).data))
                    /\ next_obj' = next_obj + 1
                    /\ UNCHANGED session_pc
               ELSE /\ session_pc' = "raised"
                    /\ UNCHANGED <<lazy, first_value, last_value, next_obj>>

\* ------------------------------------------------------- stage names ------
Ophys(n) == <<"O", "P", "H", "Y", "S", "_", n, "_">>

Images(x) == <<"i", "m", "a", "g", "e", "s", "_", x>>

Passive == <<"_", "p", "a", "s", "s", "i", "v", "e">>

Training(n) == <<"T", "R", "A", "I", "N", "I", "N", "G", "_", n, "_">>

Reward == <<"_", "1", "0", "u", "L", "_", "r", "e", "w", "a", "r", "d">>

OphysStageNames ==
    {Ophys("1") \o Images("A"), Ophys("2") \o Images("A") \o Passive,
     Ophys("3") \o Images("A"), Ophys("4") \o Images("B"),
     Ophys("5") \o Images("B") \o Passive, Ophys("6") \o Images("B")}

StageNames == OphysStageNames \cup {Training("3") \o Images("A") \o Reward}

\* ------------------------------------------------------ the manifest ------
ManifestRows ==
    [ophys_experiment_id : 1..MaxExperiment,
     container_id : 1..MaxContainer,
     stage_name : {Ophys("1") \o Images("A"), Ophys("4") \o Images("B")}]

Manifests == UNION {[1..n -> ManifestRows] : n \in 0..MaxManifest}

\* ------------------------------------------------- the session's files ------
ImageNames == {"im065", "im077"}

ImageIndices == {0, 1}

\* Stimulus tables of a session: one image per row, row i starting at time i - 1.
ImageTables ==
    UNION {{[i \in 1..n |-> ImageRow(i - 1, f[i][1], f[i][2])] :
                f \in [1..n -> ImageNames \X ImageIndices]} :
           n \in 0..MaxStim}

\* The extended table has one row per stimulus presentation.
ExtendedFor(stim) ==
    [i \in 1..Len(stim) |-> [index |-> i - 1, running_speed |-> 0, omitted |-> stim[i].omitted]]

TrialResponseFiles ==
    {<<>>,
     <<[cell_specimen_id |-> 1, trials_id |-> 0, cell_roi_id |-> 7, mean_response |-> 0]>>}

FlashResponseFiles ==
    {<<>>} \cup
    {<<[cell_specimen_id |-> 1, flash_id |-> f, image_name |-> "im065",
        cell_roi_id |-> 7, mean_response |-> 0]>> : f \in 0..MaxStim}

\* --------------------------------------------------------- behaviour ------
TrialsIdle ==
    /\ filter_aborted_trials = TRUE
    /\ patched_change_time = <<>>
    /\ trials = <<>>
    /\ trials_pc = "ready"

CacheIdle ==
    /\ container_id = 0
    /\ container_stages = <<>>
    /\ cache_pc = "ready"

NoFiles ==
    /\ stage = <<>>
    /\ extended_h5 = <<>>
    /\ trial_response_h5 = <<>>
    /\ flash_response_h5 = <<>>

SessionIdle ==
    /\ returned_presentations = <<>>
    /\ stimulus_pc = "ready"
    /\ session_pc = "unconstructed"
    /\ lazy = [a \in Attributes |-> LazyProperty]
    /\ calls = [a \in Attributes |-> 0]
    /\ accesses = [a \in Attributes |-> 0]
    /\ first_value = [a \in Attributes |-> <<>>]
    /\ last_value = [a \in Attributes |-> <<>>]
    /\ next_obj = 1

InitTrialsOver(Rows, MaxRows, Stims) ==
    /\ nwb_trials \in TrialTables(Rows, MaxRows)
    /\ nwb_stimulus_presentations \in Stims
    /\ TrialsIdle
    /\ manifest = <<>>
    /\ CacheIdle
    /\ NoFiles
    /\ SessionIdle

InitCache ==
    /\ nwb_trials = <<>>
    /\ nwb_stimulus_presentations = <<>>
    /\ TrialsIdle
    /\ manifest \in Manifests
    /\ CacheIdle
    /\ NoFiles
    /\ SessionIdle

InitFiles(TrialResponses, FlashResponses) ==
    /\ nwb_trials = <<>>
    /\ nwb_stimulus_presentations \in ImageTables
    /\ stage \in StageNames
    /\ extended_h5 = ExtendedFor(nwb_stimulus_presentations)
    /\ trial_response_h5 \in TrialResponses
    /\ flash_response_h5 \in FlashResponses
    /\ TrialsIdle
    /\ manifest = <<>>
    /\ CacheIdle
    /\ SessionIdle

\* trials.apply(..., axis=1) of a table without rows gives a frame, not a
\* column; whether the assignment at the end of the patch accepts it depends
\* on the pandas version, so such a call may also end in a ValueError.
apply_on_empty(trials0, stimulus_presentations) ==
    /\ Len(stimulus_presentations) > 0
    /\ Len(drop_uncovered(patch_change_time(trials0, stimulus_presentations),
                          last_stimulus_presentation(stimulus_presentations))) = 0

GetTrials ==
    /\ trials_pc = "ready"
    /\ \E flag \in BOOLEAN :
       \E r \in {get_trials(nwb_trials, nwb_stimulus_presentations, flag)} \cup
                 (IF apply_on_empty(nwb_trials, nwb_stimulus_presentations)
                  THEN {[status |-> "ValueError", table |-> <<>>]} ELSE {}) :
            /\ filter_aborted_trials' = flag
            /\ patched_change_time' =
                   [i \in 1..Len(nwb_trials) |->
                       patch_change_time(nwb_trials, nwb_stimulus_presentations)[i].change_time]
            /\ trials' = r.table
            /\ trials_pc' = r.status
    /\ UNCHANGED <<nwb_vars, cache_vars, api_vars, session_vars>>

GetContainerSessions ==
    /\ cache_pc = "ready"
    /\ \E cid \in 1..MaxContainer :
        LET r == get_container_sessions(manifest, cid)
        IN  /\ container_id' = cid
            /\ container_stages' = r.dict
            /\ cache_pc' = r.status
    /\ UNCHANGED <<nwb_vars, trials_vars, manifest, api_vars, session_vars>>

GetStimulusPresentations ==
    /\ stimulus_pc = "ready"
    /\ LET r == get_stimulus_presentations(nwb_stimulus_presentations, extended_h5, stage)
       IN  /\ returned_presentations' = r.table
           /\ stimulus_pc' = r.status
    /\ UNCHANGED <<nwb_vars, trials_vars, cache_vars, session_vars>>

\* Variant: __init__ calling the loader of trial_response_df on the spot.
ExtendedBehaviorSession_init_eager ==
    /\ session_pc = "unconstructed"
    /\ session_pc' = "ready"
    /\ lazy' = [a \in Attributes |->
                   IF a = "trial_response_df"
                   THEN [loaded |-> TRUE, value |-> new_object(loader(a).data)]
                   ELSE LazyProperty]
    /\ calls' = [calls EXCEPT !["trial_response_df"] = @ + 1]
    /\ next_obj' = next_obj + 1
    /\ UNCHANGED <<nwb_vars, trials_vars, cache_vars, api_vars,
                   accesses, first_value, last_value>>

\* ExtendedBehaviorSession.__init__: wraps the three loaders, calls none.
ExtendedBehaviorSession_init ==
    /\ session_pc = "unconstructed"
    /\ session_pc' = "ready"
    /\ lazy' = [a \in Attributes |-> LazyProperty]
    /\ UNCHANGED <<nwb_vars, trials_vars, cache_vars, api_vars,
                   calls, accesses, first_value, last_value, next_obj>>

ReadTrialResponseDf ==
    /\ LazyProperty_get("trial_response_df")
    /\ UNCHANGED <<nwb_vars, trials_vars, cache_vars, api_vars>>

ReadFlashResponseDf ==
    /\ LazyProperty_get("flash_response_df")
    /\ UNCHANGED <<nwb_vars, trials_vars, cache_vars, api_vars>>

ReadImageIndex ==
    /\ LazyProperty_get("image_index")
    /\ UNCHANGED <<nwb_vars, trials_vars, cache_vars, api_vars>>

NextTrials == GetTrials

NextCache == GetContainerSessions

NextApi == GetStimulusPresentations

NextSession ==
    \/ ExtendedBehaviorSession_init
    \/ ReadTrialResponseDf
    \/ ReadFlashResponseDf
    \/ ReadImageIndex

SpecTiming == InitTrialsOver(TimingRows, MaxTrials, StimTables) /\ [][NextTrials]_vars

SpecAnyOrder ==
    InitTrialsOver(AnyOrderRows, MaxTrials, StimTablesAnyOrder) /\ [][NextTrials]_vars

SpecLatency ==
    InitTrialsOver(LatencyRows, MaxLatencyTrials, StimTablesAnyOrder) /\ [][NextTrials]_vars

SpecResponse ==
    InitTrialsOver(ResponseRows, MaxTrials, StimTablesAnyOrder) /\ [][NextTrials]_vars

SpecCache == InitCache /\ [][NextCache]_vars

SpecApi == InitFiles({<<>>}, {<<>>}) /\ [][NextApi]_vars

SpecSession == InitFiles(TrialResponseFiles, FlashResponseFiles) /\ [][NextSession]_vars

\* ------------------------------------------------------------ claims ------
Returned == trials_pc = "returned"

StartTimes == {nwb_stimulus_presentations[s].start_time :
                   s \in 1..Len(nwb_stimulus_presentations)}

LastStart == nwb_stimulus_presentations[Len(nwb_stimulus_presentations)].start_time

Min(S) == CHOOSE x \in S : \A y \in S : x <= y

ReturnedIds == {trials[i].trials_id : i \in 1..Len(trials)}

\* C1: the assertion of get_trials never fails, and every non-null
\* change_time of the returned table is the start_time of some row of the
\* stimulus-presentations table.
C1_ChangeTimeIsAStimulusStart ==
    /\ trials_pc # "AssertionError"
    /\ Returned =>
          \A i \in 1..Len(trials) :
              ~isnull(trials[i].change_time) => trials[i].change_time[1] \in StartTimes

\* A returned trial whose change_time was moved to a later stimulus start.
C1_Witness ==
    /\ Returned
    /\ \E i \in 1..Len(trials) :
          /\ ~isnull(trials[i].change_time)
          /\ trials[i].change_time # nwb_trials[trials[i].trials_id].change_time

\* C2: for every trial with a non-null original change_time t, the patched
\* change_time is the smallest stimulus start_time >= t (t itself when a
\* stimulus starts at t), and null when no stimulus starts at or after t.
C2_PatchedIsNextFlash ==
    trials_pc # "ready" =>
        \A i \in 1..Len(nwb_trials) :
            LET t == nwb_trials[i].change_time
                later == {x \in StartTimes : x >= t[1]}
            IN  ~isnull(t) =>
                    patched_change_time[i] = IF later = {} THEN NaN ELSE <<Min(later)>>

\* One call in which a change time is moved forward past an earlier stimulus,
\* one stays on a stimulus that starts exactly then, or one becomes null.
C2_Witness ==
    /\ trials_pc # "ready"
    /\ Len(nwb_stimulus_presentations) >= 2
    /\ \E i \in 1..Len(nwb_trials) :
          /\ ~isnull(nwb_trials[i].change_time)
          /\ ~isnull(patched_change_time[i])
          /\ patched_change_time[i][1] > nwb_trials[i].change_time[1]
          /\ \E x \in StartTimes : x < nwb_trials[i].change_time[1]
    /\ \E i \in 1..Len(nwb_trials) :
          /\ ~isnull(nwb_trials[i].change_time)
          /\ patched_change_time[i] = nwb_trials[i].change_time

\* C3: response_latency of every returned trial is its first lick time minus
\* its patched change_time when it has a lick and a non-null patched
\* change_time, and NaN otherwise.
C3_ResponseLatencyRecomputed ==
    Returned =>
        \A i \in 1..Len(trials) :
            LET id == trials[i].trials_id
                ct == patched_change_time[id]
                lt == nwb_trials[id].lick_times
            IN  trials[i].response_latency =
                    IF Len(lt) >= 1 /\ ~isnull(ct) THEN <<lt[1] - ct[1]>> ELSE NaN

\* A returned trial with two licks whose change time was moved by the patch,
\* so that the stored latency is stale.
C3_Witness ==
    /\ Returned
    /\ \E i \in 1..Len(trials) :
          LET id == trials[i].trials_id
          IN  /\ Len(trials[i].lick_times) >= 2
              /\ ~isnull(trials[i].change_time)
              /\ trials[i].change_time # nwb_trials[id].change_time
              /\ trials[i].response_latency # nwb_trials[id].response_latency

\* The trials that survive the end-of-session drop.
Covered == {i \in 1..Len(nwb_trials) : nwb_trials[i].stop_time <= LastStart}

\* C4: with filter_aborted_trials no returned row is aborted and exactly the
\* non-aborted trials that survived the drop are returned; without it the
\* aborted survivors are returned as well.
C4_AbortedFilter ==
    Returned =>
        IF filter_aborted_trials
        THEN /\ \A i \in 1..Len(trials) : ~trials[i].aborted
             /\ ReturnedIds = {i \in Covered : ~nwb_trials[i].aborted}
        ELSE ReturnedIds = Covered

\* A filtered call that removes an aborted survivor and returns another trial.
C4_Witness ==
    /\ Returned
    /\ filter_aborted_trials
    /\ \E i \in Covered : nwb_trials[i].aborted
    /\ Len(trials) >= 1

\* C7: no returned trial stops after the start of the last stimulus
\* presentation, and a trial that stops at or before it is missing from the
\* result only when the aborted-trial filter removed it.
C7_UncoveredTrialsDropped ==
    Returned =>
        /\ \A i \in 1..Len(trials) : ~(trials[i].stop_time > LastStart)
        /\ \A i \in 1..Len(nwb_trials) :
              nwb_trials[i].stop_time <= LastStart =>
                  \/ i \in ReturnedIds
                  \/ filter_aborted_trials /\ nwb_trials[i].aborted

\* One trial stops exactly at the last stimulus start and is kept, another
\* stops after it and is dropped.
C7_Witness ==
    /\ Returned
    /\ \E i \in ReturnedIds : nwb_trials[i].stop_time = LastStart
    /\ \E i \in 1..Len(nwb_trials) :
          nwb_trials[i].stop_time > LastStart /\ i \notin ReturnedIds

\* C8: response_binary of every returned row is hit OR false_alarm of that
\* same row.
C8_ResponseBinary ==
    Returned =>
        \A i \in 1..Len(trials) :
            LET id == trials[i].trials_id
            IN  trials[i].response_binary =
                    (nwb_trials[id].hit \/ nwb_trials[id].false_alarm)

\* A false alarm is returned at a position other than the one it had in the
\* NWB table, because an earlier row was removed.
C8_Witness ==
    /\ Returned
    /\ \E i \in 1..Len(trials) :
          /\ trials[i].trials_id # i
          /\ trials[i].false_alarm /\ ~trials[i].hit
          /\ trials[i].response_binary

ContainerRows == SelectSeq(manifest, LAMBDA row : row.container_id = container_id)

\* C6 as stated: for every manifest row of the container, the dictionary
\* holds under the row's stage name the session built for the row's
\* experiment, and every value is the session of a row of that container.
C6_EveryRowHasItsSession ==
    cache_pc = "returned" =>
        /\ \A i \in 1..Len(ContainerRows) :
              /\ ContainerRows[i].stage_name \in DOMAIN container_stages
              /\ container_stages[ContainerRows[i].stage_name] =
                     get_session(ContainerRows[i].ophys_experiment_id)
        /\ \A s \in DOMAIN container_stages :
              \E i \in 1..Len(ContainerRows) :
                  container_stages[s] = get_session(ContainerRows[i].ophys_experiment_id)

\* C6 amended: the keys are the stage names of the container's manifest
\* rows, and the value under a stage name is the session built for the
\* experiment of the last manifest row of that container with that stage.
C6_LastRowOfEachStage ==
    cache_pc = "returned" =>
        /\ DOMAIN container_stages =
               {ContainerRows[i].stage_name : i \in 1..Len(ContainerRows)}
        /\ \A s \in DOMAIN container_stages :
              LET last == CHOOSE i \in 1..Len(ContainerRows) :
                              /\ ContainerRows[i].stage_name = s
                              /\ \A j \in (i+1)..Len(ContainerRows) :
                                     ContainerRows[j].stage_name # s
              IN  container_stages[s] = get_session(ContainerRows[last].ophys_experiment_id)

\* A container with two experiments of one stage, in a manifest that also
\* lists another container.
C6_Witness ==
    /\ cache_pc = "returned"
    /\ \E i, j \in 1..Len(ContainerRows) :
          /\ i < j
          /\ ContainerRows[i].stage_name = ContainerRows[j].stage_name
          /\ ContainerRows[i].ophys_experiment_id # ContainerRows[j].ophys_experiment_id
    /\ \E i \in 1..Len(manifest) : manifest[i].container_id # container_id

\* The letter that names the image set in a stage name: the character that
\* follows "images_".
ImageSetOfStage ==
    LET i == CHOOSE i \in 1..(Len(stage) - 7) :
                 SubSeq(stage, i, i + 6) = <<"i", "m", "a", "g", "e", "s", "_">>
    IN  stage[i + 7]

\* C10 as stated: the image_set column of every returned row holds the
\* letter 'A' or 'B' that names the image set of the session's stage.
C10_ImageSetIsStageLetter ==
    stimulus_pc = "returned" =>
        \A i \in 1..Len(returned_presentations) :
            /\ returned_presentations[i].image_set \in {"A", "B"}
            /\ returned_presentations[i].image_set = ImageSetOfStage

ImageIndexMapping ==
    [index \in {nwb_stimulus_presentations[i].image_index :
                    i \in 1..Len(nwb_stimulus_presentations)} |->
        CHOOSE name \in ImageNames :
            \E i \in 1..Len(nwb_stimulus_presentations) :
                /\ nwb_stimulus_presentations[i].image_index = index
                /\ nwb_stimulus_presentations[i].image_name = name]

\* C9 as stated: a read of image_index that succeeds returns the mapping from
\* every image_index of the stimulus presentations to its image_name.
C9_ImageIndexIsTheMapping ==
    first_value["image_index"] # <<>> =>
        first_value["image_index"][1].data = Table(ImageIndexMapping)
====
